---- MODULE Spec2Model ----
(***************************************************************************)
(* Bank of Milo: the ledger core of src/api/app.py.                        *)
(*                                                                         *)
(* The database (accounts, ledger, loans, requests) is the shared state.   *)
(* Every thread (a request-handling worker, the fee scheduler, the loan    *)
(* scheduler) works through its own SQLAlchemy session: an attribute read  *)
(* returns the value the session loaded, db.session.commit() writes the    *)
(* session's changed attributes to the database in one transaction and     *)
(* expires everything the session holds, so that the next attribute read   *)
(* loads the row again.  One step of the model is one database             *)
(* interaction (a SELECT or a COMMIT) together with the in-memory          *)
(* statements that follow it up to the next one.  A session that has       *)
(* written before its commit (an autoflush) holds SQLite's write lock up   *)
(* to the commit: what it reads in between is what is there at its commit. *)
(*                                                                         *)
(* Money is counted in whole currency units and loan amounts are multiples *)
(* of 10000, so that 50% and 109.99% of a loan are whole numbers; dates    *)
(* are day numbers.                                                        *)
(***************************************************************************)
EXTENDS Integers, Sequences, FiniteSets, TLC

\* ------------------------------------------------------------ bounds
NumAccounts == 2
NumWorkers == 2
MaxRequests == 1
MaxLoans == 1
MaxTxns == 4
\* How many operations (requests being handled, scheduler ticks) are in progress at once.
MaxInFlight == 2

\* ------------------------------------------------- program constants
MonthlyFee == 5
BillingDays == 30

\* The day the process started, which is the day the module was imported.
StartDate == 0

\* ------------------------------------------------------ input sets
\* The dates the clock is observed at: under interleaving, and when the
\* operations run one at a time.
Days == {0, 30}
SerialDays == {0, 30, 60, 89}
DepositAmounts == {6000}
WithdrawAmounts == {0, 6000}
\* The amounts of loan applications; where accounts are opened while the
\* process runs, a negative one too.
LoanAmounts == {10000}
OpenLoanAmounts == {10000, -10000}
\* The borrower's preferred dates, and the dates an approval may give instead
\* (NoDate: none given): under interleaving, and when the operations run one at a
\* time.
NoDate == -1
PreferredDates == {<<0, 30>>, <<30, 0>>}
OverrideDates == {NoDate}
SerialPreferredDates == {<<30, 30>>}
SerialOverrideDates == {NoDate, 0}

Accounts == 1..NumAccounts
Workers == 1..NumWorkers

VARIABLES
  run,        \* the run's frame: the accounts opened at the start, how many
              \* operations may be in progress, the dates
  boot,       \* init_done, and how many loops of each scheduler were started
  now,        \* datetime.utcnow().date()
  accounts,   \* table account: id -> row
  ledger,     \* table transaction, per account_id, in insertion order
  loans,      \* table loan: a sequence indexed by loan id
  requests,   \* table atm_request: a sequence indexed by request id
  applied,    \* history: how often each request's amount was committed to a balance
  wk,         \* the request-handling threads
  fee,        \* the thread running process_monthly_fees
  ln          \* the thread running process_loan_payments

vars == <<run, boot, now, accounts, ledger, loans, requests, applied, wk, fee, ln>>
db == <<accounts, ledger, loans, requests, applied>>

\* ------------------------------------------------------------ helpers

\* 50% of the loan amount.
FirstPaymentAmount(amount) == (amount * 5) \div 10

\* 100% + 9.99% interest of the loan amount.
SecondPaymentAmount(amount) == (amount * 10999) \div 10000

\* The status check_account_status leaves the account in.
check_account_status(balance, status) ==
  IF balance < 0 /\ status = "active" THEN "on_hold"
  ELSE IF balance >= 0 /\ status = "on_hold" THEN "active"
  ELSE status

\* The row add_transaction inserts: balance_after is the balance the calling
\* session holds for the account.
Transaction(type, amount, description, num, balance) ==
  [transaction_type |-> type, amount |-> amount, description |-> description,
   num |-> num, balance_after |-> balance]

\* The ledger after add_transaction's insert for account a.
add_transaction(a, type, amount, description, num, balance) ==
  [ledger EXCEPT ![a] = Append(@, Transaction(type, amount, description, num, balance))]

\* Room for one more transaction of account a (the model's bound on the ledger).
CanRecord(a) == Len(ledger[a]) < MaxTxns

\* The place of an account that has not been opened yet, and the opened accounts.
Unopened == [balance |-> 0, status |-> "absent", created_at |-> 0, last_fee_date |-> 0]
Opened == {a \in Accounts : accounts[a].status # "absent"}

\* The row create_account inserts on day created_at: the column defaults of
\* Account, of which last_fee_date's was evaluated once, when the module was
\* imported.
NewAccount(created_at) ==
  [balance |-> 0, status |-> "active", created_at |-> created_at,
   last_fee_date |-> StartDate]

\* A session's copy of an account row; loaded = FALSE: not loaded, or expired.
NoAccount == [loaded |-> FALSE, balance |-> 0, status |-> "none", last_fee_date |-> 0]
LoadAccount(a) ==
  [loaded |-> TRUE, balance |-> accounts[a].balance, status |-> accounts[a].status,
   last_fee_date |-> accounts[a].last_fee_date]

\* A session's copy of a loan row.
NoLoan ==
  [loaded |-> FALSE, approved_date1 |-> NoDate, approved_date2 |-> NoDate,
   first_payment_done |-> FALSE, second_payment_done |-> FALSE]
LoadLoan(l) ==
  [loaded |-> TRUE, approved_date1 |-> loans[l].approved_date1,
   approved_date2 |-> loans[l].approved_date2,
   first_payment_done |-> loans[l].first_payment_done,
   second_payment_done |-> loans[l].second_payment_done]

IdleWorker ==
  [pc |-> "idle", op |-> "none", target |-> 0, bal |-> 0, st |-> "none",
   d1 |-> NoDate, d2 |-> NoDate, resp |-> 0]

\* charged and failed are history: the accounts the running tick has charged,
\* and whether the thread's previous tick ended with an exception.
IdleFee ==
  [pc |-> "sleep", slept |-> FALSE, date |-> 0, todo |-> <<>>,
   snap |-> [a \in Accounts |-> NoAccount], bal |-> 0, st |-> "none",
   charged |-> {}, failed |-> FALSE]

IdleLoan ==
  [pc |-> "sleep", slept |-> FALSE, date |-> 0, todo |-> <<>>,
   asnap |-> [a \in Accounts |-> NoAccount], lsnap |-> [l \in 1..MaxLoans |-> NoLoan],
   bal |-> 0, st |-> "none", phase |-> 0, failed |-> FALSE]

\* Variant: the exception ends the scheduler's thread.
AfterFailureDead(idle) == [idle EXCEPT !.pc = "dead", !.failed = TRUE]

\* A scheduler thread after the except clause (lines 140-141, 185-186): at the
\* end of the loop body, about to sleep.
AfterFailure(idle) == [idle EXCEPT !.slept = TRUE, !.failed = TRUE]

\* A set of ids as a sequence, ascending: the order a query returns rows in.
RECURSIVE Ascending(_)
Ascending(S) ==
  IF S = {} THEN <<>>
  ELSE LET m == CHOOSE x \in S : \A y \in S : x <= y
       IN <<m>> \o Ascending(S \ {m})

\* ------------------------------------------------------------ initial state

\* The process has started on day StartDate, its first request has run the
\* one-time initialisation (unless the run starts before it) and the run's first
\* accounts have been opened that day; nothing else has happened.
Started ==
  /\ boot = IF run.booted THEN [init_done |-> TRUE, fee_threads |-> 1, loan_threads |-> 1]
            ELSE [init_done |-> FALSE, fee_threads |-> 0, loan_threads |-> 0]
  /\ now = StartDate
  /\ accounts = [a \in Accounts |-> IF a <= run.opened THEN NewAccount(StartDate)
                                    ELSE Unopened]
  /\ ledger = [a \in Accounts |-> <<>>]
  /\ loans = <<>>
  /\ requests = <<>>
  /\ applied = [r \in 1..MaxRequests |-> 0]
  /\ wk = [w \in Workers |-> IdleWorker]
  /\ fee = IdleFee
  /\ ln = IdleLoan

\* Operations interleave, up to MaxInFlight at once.
Init ==
  /\ run = [booted |-> TRUE, opened |-> 1, limit |-> MaxInFlight, days |-> Days,
            preferred |-> PreferredDates, overrides |-> OverrideDates,
            amounts |-> LoanAmounts]
  /\ Started

\* Operations run one at a time, each to its end.
SerialInit ==
  /\ run = [booted |-> TRUE, opened |-> 1, limit |-> 1, days |-> SerialDays,
            preferred |-> SerialPreferredDates, overrides |-> SerialOverrideDates,
            amounts |-> LoanAmounts]
  /\ Started

\* The same, over fewer dates.
LiveInit ==
  /\ run = [booted |-> TRUE, opened |-> 1, limit |-> 1, days |-> Days,
            preferred |-> SerialPreferredDates, overrides |-> OverrideDates,
            amounts |-> LoanAmounts]
  /\ Started

\* The same, before the first request: the one-time initialisation has not run.
BootInit ==
  /\ run = [booted |-> FALSE, opened |-> 1, limit |-> 1, days |-> Days,
            preferred |-> SerialPreferredDates, overrides |-> OverrideDates,
            amounts |-> LoanAmounts]
  /\ Started

\* The same, with no account opened yet.
OpenInit ==
  /\ run = [booted |-> TRUE, opened |-> 0, limit |-> 1, days |-> Days,
            preferred |-> SerialPreferredDates, overrides |-> OverrideDates,
            amounts |-> OpenLoanAmounts]
  /\ Started

\* ------------------------------------------------------------ request handlers

\* The operations in progress.
InFlight ==
  Cardinality({w \in Workers : wk[w].pc # "idle"})
    + (IF fee.pc # "sleep" THEN 1 ELSE 0) + (IF ln.pc # "sleep" THEN 1 ELSE 0)

\* Another operation may start.
MayStart == InFlight < run.limit

\* A worker thread takes the next request, whose before_request hook finds
\* init_done set; idle workers are interchangeable, so the lowest-numbered idle
\* one takes it.
Free(w) ==
  /\ boot.init_done
  /\ MayStart
  /\ wk[w].pc = "idle"
  /\ \A v \in Workers : v < w => wk[v].pc # "idle"

\* The handler op, called for target, is about to return the HTTP status code.
Respond(w, op, target, code) ==
  [wk EXCEPT ![w] = [IdleWorker EXCEPT !.pc = "reply", !.op = op, !.target = target,
                                       !.resp = code]]

\* The handler returns its response; the session is removed with the request.
Reply(w) ==
  /\ wk[w].pc = "reply"
  /\ wk' = [wk EXCEPT ![w] = IdleWorker]
  /\ UNCHANGED <<run, boot, now, db, fee, ln>>

\* create_tables_once, the before_request hook (lines 696-706): a request's thread
\* reads init_done and finds it unset.  The requests that arrive before
\* init_done is set are handled at the same time, each on its own thread.
InitCheck(w) ==
  /\ wk[w].pc = "idle"
  /\ ~boot.init_done
  /\ wk' = [wk EXCEPT ![w].pc = "init", ![w].op = "create_tables_once"]
  /\ UNCHANGED <<run, boot, now, db, fee, ln>>

\* Lines 700-706: the tables are created, a fee thread and a loan thread are
\* started, init_done is set; the request goes on to its handler.  The model
\* follows one loop of each scheduler; boot counts the loops started.
InitThreads(w) ==
  /\ wk[w].pc = "init"
  /\ boot' = [init_done |-> TRUE, fee_threads |-> boot.fee_threads + 1,
              loan_threads |-> boot.loan_threads + 1]
  /\ wk' = [wk EXCEPT ![w] = IdleWorker]
  /\ UNCHANGED <<run, now, db, fee, ln>>

\* create_account: the next account id is given to a new row.
CreateAccount(w) ==
  /\ Free(w)
  /\ Opened # Accounts
  /\ LET a == CHOOSE x \in Accounts \ Opened : \A y \in Accounts \ Opened : x <= y
     IN /\ accounts' = [accounts EXCEPT ![a] = NewAccount(now)]
        /\ wk' = Respond(w, "create_account", a, 201)
  /\ UNCHANGED <<run, boot, now, ledger, loans, requests, applied, fee, ln>>

\* atm_deposit: a positive amount creates a pending deposit request.
AtmDeposit(w, a, amount) ==
  /\ Free(w)
  /\ Len(requests) < MaxRequests
  /\ IF amount <= 0
       THEN /\ wk' = Respond(w, "atm_deposit", 0, 400)
            /\ UNCHANGED requests
       ELSE /\ requests' = Append(requests, [account_id |-> a, request_type |-> "deposit",
                                             amount |-> amount, status |-> "pending"])
            /\ wk' = Respond(w, "atm_deposit", Len(requests) + 1, 201)
  /\ UNCHANGED <<run, boot, now, accounts, ledger, loans, applied, fee, ln>>

\* Variant: the handler does not compare the amount with the balance.
WithdrawRefusedFundsUnchecked(status, balance, amount) ==
  status # "active" \/ amount <= 0

\* atm_withdraw's tests of the account it loaded and of the amount (lines 415-422).
WithdrawRefused(status, balance, amount) ==
  status # "active" \/ amount <= 0 \/ amount > balance

\* atm_withdraw: an active account, a positive amount and sufficient funds create
\* a pending withdrawal request.
AtmWithdraw(w, a, amount) ==
  /\ Free(w)
  /\ Len(requests) < MaxRequests
  /\ IF WithdrawRefused(accounts[a].status, accounts[a].balance, amount)
       THEN /\ wk' = Respond(w, "atm_withdraw", 0, 400)
            /\ UNCHANGED requests
       ELSE /\ requests' = Append(requests, [account_id |-> a, request_type |-> "withdrawal",
                                             amount |-> amount, status |-> "pending"])
            /\ wk' = Respond(w, "atm_withdraw", Len(requests) + 1, 201)
  /\ UNCHANGED <<run, boot, now, accounts, ledger, loans, applied, fee, ln>>

\* apply_for_loan: an active account creates a pending loan.
ApplyForLoan(w, a, amount, dates) ==
  /\ Free(w)
  /\ Len(loans) < MaxLoans
  /\ IF accounts[a].status # "active"
       THEN /\ wk' = Respond(w, "apply_for_loan", 0, 400)
            /\ UNCHANGED loans
       ELSE /\ loans' = Append(loans,
                 [account_id |-> a, amount |-> amount, status |-> "pending",
                  preferred_date1 |-> dates[1], preferred_date2 |-> dates[2],
                  approved_date1 |-> NoDate, approved_date2 |-> NoDate,
                  first_payment_done |-> FALSE, second_payment_done |-> FALSE])
            /\ wk' = Respond(w, "apply_for_loan", Len(loans) + 1, 201)
  /\ UNCHANGED <<run, boot, now, accounts, ledger, requests, applied, fee, ln>>

\* admin_close_account: the status is overwritten, whatever it was.
AdminCloseAccount(w, a) ==
  /\ Free(w)
  /\ accounts' = [accounts EXCEPT ![a].status = "closed"]
  /\ wk' = Respond(w, "close", a, 200)
  /\ UNCHANGED <<run, boot, now, ledger, loans, requests, applied, fee, ln>>

\* admin_complete_atm_request -------------------------------------------------

\* Variant: the handler goes on whatever the request's status.
RequestIsPendingAlways(r) == TRUE

\* The handler's test of the request it loaded.
RequestIsPending(r) == requests[r].status = "pending"

\* Lines 645-650: load the request; a request that is not pending is refused.
CompleteStart(w, r) ==
  /\ Free(w)
  /\ r \in 1..Len(requests)
  /\ wk' = IF RequestIsPending(r)
             THEN [wk EXCEPT ![w] = [IdleWorker EXCEPT !.pc = "c_account",
                                        !.op = "complete", !.target = r]]
             ELSE Respond(w, "complete", r, 400)
  /\ UNCHANGED <<run, boot, now, db, fee, ln>>

\* Variant: a withdrawal raises the balance as a deposit does.
CompletedBalanceAdded(r, balance) == balance + requests[r].amount

\* The balance the handler computes from the balance it loaded.
CompletedBalance(r, balance) ==
  IF requests[r].request_type = "deposit" THEN balance + requests[r].amount
  ELSE balance - requests[r].amount

\* Lines 652-659: load the account and change the balance in memory.
CompleteAccount(w) ==
  /\ wk[w].pc = "c_account"
  /\ LET r == wk[w].target
         a == requests[r].account_id
     IN wk' = [wk EXCEPT ![w].pc = "c_record",
                         ![w].bal = CompletedBalance(r, accounts[a].balance)]
  /\ UNCHANGED <<run, boot, now, db, fee, ln>>

\* Lines 657/660: add_transaction commits the balance and the transaction row.
CompleteRecord(w) ==
  /\ wk[w].pc = "c_record"
  /\ LET r == wk[w].target
         a == requests[r].account_id
         dep == requests[r].request_type = "deposit"
     IN /\ CanRecord(a)
        /\ accounts' = [accounts EXCEPT ![a].balance = wk[w].bal]
        /\ ledger' = add_transaction(a, requests[r].request_type,
                        IF dep THEN requests[r].amount ELSE -requests[r].amount,
                        IF dep THEN "ATM deposit" ELSE "ATM withdrawal", 0, wk[w].bal)
        /\ applied' = [applied EXCEPT ![r] = @ + 1]
  /\ wk' = [wk EXCEPT ![w].pc = "c_check"]
  /\ UNCHANGED <<run, boot, now, loans, requests, fee, ln>>

\* Lines 662-666: the request is marked completed in memory; check_account_status
\* reads the expired account, and the autoflush before that load writes the
\* request's UPDATE, which takes SQLite's write lock: until this session's
\* commit no other connection can commit.
CompleteCheck(w) ==
  /\ wk[w].pc = "c_check"
  /\ wk' = [wk EXCEPT ![w].pc = "c_commit"]
  /\ UNCHANGED <<run, boot, now, db, fee, ln>>

\* Lines 94-100 and 668: check_account_status decides on the account as it is
\* under the write lock, which is as it is at the commit; the commit writes the
\* changed status, if any, and the request's completion.
CompleteCommit(w) ==
  /\ wk[w].pc = "c_commit"
  /\ LET r == wk[w].target
         a == requests[r].account_id
     IN /\ accounts' = [accounts EXCEPT ![a].status =
                          check_account_status(accounts[a].balance, accounts[a].status)]
        /\ requests' = [requests EXCEPT ![r].status = "completed"]
        /\ wk' = Respond(w, "complete", r, 200)
  /\ UNCHANGED <<run, boot, now, ledger, loans, applied, fee, ln>>

\* admin_approve_loan / admin_deny_loan ----------------------------------------

\* The handlers' test of the loan they loaded.
LoanIsPending(l) == loans[l].status = "pending"

\* The approved date: the caller's, when given, else the borrower's preferred one.
ApprovedDate(override, preferred) == IF override # NoDate THEN override ELSE preferred

\* Lines 560-586: load the loan; refuse one that is not pending; else mark it
\* approved in memory, with its dates.
ApproveStart(w, l, o1, o2) ==
  /\ Free(w)
  /\ l \in 1..Len(loans)
  /\ wk' = IF LoanIsPending(l)
             THEN [wk EXCEPT ![w] = [IdleWorker EXCEPT !.pc = "a_account",
                      !.op = "approve", !.target = l,
                      !.d1 = ApprovedDate(o1, loans[l].preferred_date1),
                      !.d2 = ApprovedDate(o2, loans[l].preferred_date2)]]
             ELSE Respond(w, "approve", l, 400)
  /\ UNCHANGED <<run, boot, now, db, fee, ln>>

\* Variant: the approval does not credit the balance.
DisbursedBalanceUncredited(balance, amount) == balance

\* The balance after the disbursement of amount.
DisbursedBalance(balance, amount) == balance + amount

\* Line 589: the account is loaded; the autoflush before that load writes the
\* loan's UPDATE, which takes SQLite's write lock: until this session's commit
\* no other connection can commit.
ApproveAccount(w) ==
  /\ wk[w].pc = "a_account"
  /\ wk' = [wk EXCEPT ![w].pc = "a_commit"]
  /\ UNCHANGED <<run, boot, now, db, fee, ln>>

\* Lines 590-596: the loan amount is added to the balance loaded under the write
\* lock, which is the balance at the commit; add_transaction commits the loan,
\* the balance and the disbursement row together.
ApproveCommit(w) ==
  /\ wk[w].pc = "a_commit"
  /\ LET l == wk[w].target
         a == loans[l].account_id
         bal == DisbursedBalance(accounts[a].balance, loans[l].amount)
     IN /\ CanRecord(a)
        /\ loans' = [loans EXCEPT ![l].status = "approved",
                                  ![l].approved_date1 = wk[w].d1,
                                  ![l].approved_date2 = wk[w].d2]
        /\ accounts' = [accounts EXCEPT ![a].balance = bal]
        /\ ledger' = add_transaction(a, "loan_disbursement", loans[l].amount,
                                     "Loan disbursement for loan", l, bal)
        /\ wk' = Respond(w, "approve", l, 200)
  /\ UNCHANGED <<run, boot, now, requests, applied, fee, ln>>

\* Lines 607-612: load the loan; refuse one that is not pending.
DenyStart(w, l) ==
  /\ Free(w)
  /\ l \in 1..Len(loans)
  /\ wk' = IF LoanIsPending(l)
             THEN [wk EXCEPT ![w] = [IdleWorker EXCEPT !.pc = "d_commit",
                                        !.op = "deny", !.target = l]]
             ELSE Respond(w, "deny", l, 400)
  /\ UNCHANGED <<run, boot, now, db, fee, ln>>

\* Lines 614-615: commit the denial.
DenyCommit(w) ==
  /\ wk[w].pc = "d_commit"
  /\ loans' = [loans EXCEPT ![wk[w].target].status = "denied"]
  /\ wk' = Respond(w, "deny", wk[w].target, 200)
  /\ UNCHANGED <<run, boot, now, accounts, ledger, requests, applied, fee, ln>>

\* ------------------------------------------------------------ fee scheduler

\* The accounts the tick's query returns.
FeeQuery == {a \in Accounts : accounts[a].status = "active"}

\* Whether the fee is due for an account last charged on last_fee_date.
FeeDue(current_date, last_fee_date) == current_date - last_fee_date >= BillingDays

\* Variant: the charge forgets to advance last_fee_date.
ChargedFeeDateStale(current_date, last_fee_date) == last_fee_date

\* Variant: the charge pays for one period and moves last_fee_date by it.
ChargedFeeDateNextPeriod(current_date, last_fee_date) == last_fee_date + BillingDays

\* The date the charge leaves in last_fee_date.
ChargedFeeDate(current_date, last_fee_date) == current_date

\* Lines 125-127: a tick starts: the active accounts are loaded, the date is read.
FeeTick ==
  /\ boot.fee_threads > 0
  /\ fee.pc = "sleep"
  /\ MayStart
  /\ ~fee.slept
  /\ fee' = [IdleFee EXCEPT !.pc = "loop", !.date = now, !.todo = Ascending(FeeQuery),
                            !.failed = fee.failed,
                            !.snap = [a \in Accounts |->
                                        IF a \in FeeQuery THEN LoadAccount(a) ELSE NoAccount]]
  /\ UNCHANGED <<run, boot, now, db, wk, ln>>

\* Lines 129-135: the next account of the loop: an expired account is loaded
\* again; a due fee is deducted in memory.
FeeLoop ==
  /\ fee.pc = "loop"
  /\ fee.todo # <<>>
  /\ LET a == Head(fee.todo)
         row == IF fee.snap[a].loaded THEN fee.snap[a] ELSE LoadAccount(a)
     IN fee' = IF FeeDue(fee.date, row.last_fee_date)
                 THEN [fee EXCEPT !.pc = "record", !.snap[a] = row,
                                  !.bal = row.balance - MonthlyFee]
                 ELSE [fee EXCEPT !.snap[a] = row, !.todo = Tail(@)]
  /\ UNCHANGED <<run, boot, now, db, wk, ln>>

\* Variant: the charge commits the deduction and last_fee_date, and leaves the
\* fee row to a later commit.
FeeRecordDeductionFirst ==
  /\ fee.pc = "record"
  /\ LET a == Head(fee.todo)
     IN /\ CanRecord(a)
        /\ accounts' = [accounts EXCEPT ![a].balance = fee.bal,
               ![a].last_fee_date = ChargedFeeDate(fee.date, @)]
        /\ ledger' = ledger
  /\ fee' = [fee EXCEPT !.pc = "check", !.snap = [a \in Accounts |-> NoAccount],
                        !.charged = @ \cup {Head(fee.todo)}]
  /\ UNCHANGED <<run, boot, now, loans, requests, applied, wk, ln>>

\* Line 136: add_transaction commits the balance, last_fee_date and the fee row;
\* the commit expires every row the session holds.
FeeRecord ==
  /\ fee.pc = "record"
  /\ LET a == Head(fee.todo)
     IN /\ CanRecord(a)
        /\ accounts' = [accounts EXCEPT ![a].balance = fee.bal,
               ![a].last_fee_date = ChargedFeeDate(fee.date, @)]
        /\ ledger' = add_transaction(a, "fee", -MonthlyFee, "Monthly maintenance fee",
                                     0, fee.bal)
  /\ fee' = [fee EXCEPT !.pc = "check", !.snap = [a \in Accounts |-> NoAccount],
                        !.charged = @ \cup {Head(fee.todo)}]
  /\ UNCHANGED <<run, boot, now, loans, requests, applied, wk, ln>>

\* Line 137: check_account_status loads the account and decides.
FeeCheck ==
  /\ fee.pc = "check"
  /\ LET a == Head(fee.todo)
         s == check_account_status(accounts[a].balance, accounts[a].status)
     IN fee' = IF s = accounts[a].status
                 THEN [fee EXCEPT !.pc = "loop", !.snap[a] = LoadAccount(a),
                                  !.todo = Tail(@), !.bal = 0]
                 ELSE [fee EXCEPT !.pc = "status", !.st = s, !.bal = 0]
  /\ UNCHANGED <<run, boot, now, db, wk, ln>>

\* Lines 97/100: check_account_status commits the changed status.
FeeStatus ==
  /\ fee.pc = "status"
  /\ accounts' = [accounts EXCEPT ![Head(fee.todo)].status = fee.st]
  /\ fee' = [fee EXCEPT !.pc = "loop", !.st = "none", !.todo = Tail(@),
                        !.snap = [a \in Accounts |-> NoAccount]]
  /\ UNCHANGED <<run, boot, now, ledger, loans, requests, applied, wk, ln>>

\* Lines 139-143: the tick ends and the thread sleeps for a day.
FeeSleep ==
  /\ fee.pc = "loop"
  /\ fee.todo = <<>>
  /\ fee' = [IdleFee EXCEPT !.slept = TRUE]
  /\ UNCHANGED <<run, boot, now, db, wk, ln>>

\* A database interaction of the loop (the load of an expired row, a commit)
\* raises a store error: the exception leaves the for loop, the handler of line
\* 140 prints it, nothing of the failed statement is committed, and the thread
\* sleeps for a day.
FeeFail ==
  /\ \/ fee.pc = "loop" /\ fee.todo # <<>> /\ ~fee.snap[Head(fee.todo)].loaded
     \/ fee.pc \in {"record", "check", "status"}
  /\ fee' = AfterFailure(IdleFee)
  /\ UNCHANGED <<run, boot, now, db, wk, ln>>

\* ------------------------------------------------------------ loan scheduler

\* Variant: the query leaves out the loans whose first payment is made.
LoanQueryUnpaid ==
  {l \in 1..Len(loans) : loans[l].status = "approved" /\ ~loans[l].first_payment_done}

\* The loans the tick's query returns.
LoanQuery == {l \in 1..Len(loans) : loans[l].status = "approved"}

\* The first payment is due and not made (lines 157-159).
FirstDue(current_date, row) ==
  /\ row.approved_date1 # NoDate
  /\ current_date >= row.approved_date1
  /\ ~row.first_payment_done

\* Variant: the second payment does not wait for the first.
SecondDueUnordered(current_date, row) ==
  /\ row.approved_date2 # NoDate
  /\ current_date >= row.approved_date2
  /\ ~row.second_payment_done

\* The second payment is due, not made, and the first is made (lines 170-173).
SecondDue(current_date, row) ==
  /\ row.approved_date2 # NoDate
  /\ current_date >= row.approved_date2
  /\ ~row.second_payment_done
  /\ row.first_payment_done

\* Variant: a payment is made whatever the balance.
CoversAlways(balance, payment_amount) == TRUE

\* The balance covers the payment (lines 162 and 176).
Covers(balance, payment_amount) == balance >= payment_amount

\* Lines 149-151: a tick starts: the date is read, the approved loans are loaded.
LoanTick ==
  /\ boot.loan_threads > 0
  /\ ln.pc = "sleep"
  /\ MayStart
  /\ ~ln.slept
  /\ ln' = [IdleLoan EXCEPT !.pc = "first", !.date = now, !.todo = Ascending(LoanQuery),
                            !.failed = ln.failed,
                            !.lsnap = [l \in 1..MaxLoans |->
                                         IF l \in LoanQuery THEN LoadLoan(l) ELSE NoLoan]]
  /\ UNCHANGED <<run, boot, now, db, wk, fee>>

\* Lines 154-164: the next loan: its account is loaded unless the session holds
\* it, an expired loan is loaded again; a due first payment the balance covers
\* is deducted in memory.
LoanFirst ==
  /\ ln.pc = "first"
  /\ ln.todo # <<>>
  /\ LET l == Head(ln.todo)
         a == loans[l].account_id
         acc == IF ln.asnap[a].loaded THEN ln.asnap[a] ELSE LoadAccount(a)
         row == IF ln.lsnap[l].loaded THEN ln.lsnap[l] ELSE LoadLoan(l)
         pay == FirstPaymentAmount(loans[l].amount)
     IN ln' = IF FirstDue(ln.date, row) /\ Covers(acc.balance, pay)
                THEN [ln EXCEPT !.pc = "record", !.phase = 1, !.asnap[a] = acc,
                                !.lsnap[l] = row, !.bal = acc.balance - pay]
                ELSE [ln EXCEPT !.pc = "second", !.asnap[a] = acc, !.lsnap[l] = row]
  /\ UNCHANGED <<run, boot, now, db, wk, fee>>

\* Lines 170-178: a due second payment the balance covers is deducted in
\* memory; else the loop goes on to the next loan.
LoanSecond ==
  /\ ln.pc = "second"
  /\ LET l == Head(ln.todo)
         a == loans[l].account_id
         acc == IF ln.asnap[a].loaded THEN ln.asnap[a] ELSE LoadAccount(a)
         row == IF ln.lsnap[l].loaded THEN ln.lsnap[l] ELSE LoadLoan(l)
         pay == SecondPaymentAmount(loans[l].amount)
     IN ln' = IF SecondDue(ln.date, row) /\ Covers(acc.balance, pay)
                THEN [ln EXCEPT !.pc = "record", !.phase = 2, !.asnap[a] = acc,
                                !.lsnap[l] = row, !.bal = acc.balance - pay]
                ELSE [ln EXCEPT !.pc = "first", !.phase = 0, !.asnap[a] = acc,
                                !.lsnap[l] = row, !.todo = Tail(@)]
  /\ UNCHANGED <<run, boot, now, db, wk, fee>>

\* The loan row after a payment's commit.
PaidLoan(loan, phase) ==
  IF phase = 1 THEN [loan EXCEPT !.first_payment_done = TRUE]
  ELSE [loan EXCEPT !.second_payment_done = TRUE, !.status = "completed"]

\* Lines 165/180: add_transaction commits the balance, the loan's flag (and, for
\* the second payment, its completion) and the payment row; the commit expires
\* every row the session holds.
LoanRecord ==
  /\ ln.pc = "record"
  /\ LET l == Head(ln.todo)
         a == loans[l].account_id
         pay == IF ln.phase = 1 THEN FirstPaymentAmount(loans[l].amount)
                ELSE SecondPaymentAmount(loans[l].amount)
     IN /\ CanRecord(a)
        /\ accounts' = [accounts EXCEPT ![a].balance = ln.bal]
        /\ loans' = [loans EXCEPT ![l] = PaidLoan(@, ln.phase)]
        /\ ledger' = add_transaction(a, "loan_payment", -pay,
                        IF ln.phase = 1 THEN "First loan payment for loan"
                        ELSE "Final loan payment for loan", l, ln.bal)
  /\ ln' = [ln EXCEPT !.pc = "check", !.bal = 0,
                      !.asnap = [a \in Accounts |-> NoAccount],
                      !.lsnap = [l \in 1..MaxLoans |-> NoLoan]]
  /\ UNCHANGED <<run, boot, now, requests, applied, wk, fee>>

\* Where the loop goes on after a payment's status check.
AfterPayment(t) ==
  IF t.phase = 1 THEN [t EXCEPT !.pc = "second", !.st = "none"]
  ELSE [t EXCEPT !.pc = "first", !.st = "none", !.phase = 0, !.todo = Tail(@)]

\* Lines 167/182: check_account_status loads the account and decides.
LoanCheck ==
  /\ ln.pc = "check"
  /\ LET a == loans[Head(ln.todo)].account_id
         s == check_account_status(accounts[a].balance, accounts[a].status)
     IN ln' = IF s = accounts[a].status
                THEN AfterPayment([ln EXCEPT !.asnap[a] = LoadAccount(a)])
                ELSE [ln EXCEPT !.pc = "status", !.st = s]
  /\ UNCHANGED <<run, boot, now, db, wk, fee>>

\* Lines 97/100: check_account_status commits the changed status.
LoanStatus ==
  /\ ln.pc = "status"
  /\ accounts' = [accounts EXCEPT ![loans[Head(ln.todo)].account_id].status = ln.st]
  /\ ln' = AfterPayment([ln EXCEPT !.asnap = [a \in Accounts |-> NoAccount],
                                   !.lsnap = [l \in 1..MaxLoans |-> NoLoan]])
  /\ UNCHANGED <<run, boot, now, ledger, loans, requests, applied, wk, fee>>

\* Lines 184-188: the tick ends and the thread sleeps for a day.
LoanSleep ==
  /\ ln.pc = "first"
  /\ ln.todo = <<>>
  /\ ln' = [IdleLoan EXCEPT !.slept = TRUE]
  /\ UNCHANGED <<run, boot, now, db, wk, fee>>

\* A database interaction of the loop raises: the exception leaves the for loop,
\* the handler of line 185 prints it, and the thread sleeps for a day.
LoanFail ==
  /\ \/ /\ ln.pc \in {"first", "second"}
        /\ ln.todo # <<>>
        /\ \/ ~ln.lsnap[Head(ln.todo)].loaded
           \/ ~ln.asnap[loans[Head(ln.todo)].account_id].loaded
     \/ ln.pc \in {"record", "check", "status"}
  /\ ln' = AfterFailure(IdleLoan)
  /\ UNCHANGED <<run, boot, now, db, wk, fee>>

\* ------------------------------------------------------------ environment

\* Time passes: a later day comes, and a scheduler's sleep of one day is over.
AdvanceClock ==
  /\ \E d \in run.days : d > now /\ now' = d
  /\ fee' = [fee EXCEPT !.slept = FALSE]
  /\ ln' = [ln EXCEPT !.slept = FALSE]
  /\ UNCHANGED <<run, boot, db, wk>>

\* A day passes after the last of the run's dates: the schedulers' sleep is over;
\* the dates after the last one are not told apart.
Wake ==
  /\ \A d \in run.days : d <= now
  /\ fee.slept \/ ln.slept
  /\ fee' = [fee EXCEPT !.slept = FALSE]
  /\ ln' = [ln EXCEPT !.slept = FALSE]
  /\ UNCHANGED <<run, boot, now, db, wk>>

\* The process stops and is started again: every thread and its session is lost,
\* the database file stays, and the schedulers start again with a tick.
Crash ==
  /\ <<wk, fee, ln>> # <<[w \in Workers |-> IdleWorker], IdleFee, IdleLoan>>
  /\ wk' = [w \in Workers |-> IdleWorker]
  /\ fee' = IdleFee
  /\ ln' = IdleLoan
  /\ UNCHANGED <<run, boot, now, db>>

\* ------------------------------------------------------------ specification

\* The handlers are called for accounts that exist; a request that names no
\* account is answered 401 or 404 before anything else.
WorkerNext(w) ==
  \/ \E a \in Opened, amount \in DepositAmounts : AtmDeposit(w, a, amount)
  \/ \E a \in Opened, amount \in WithdrawAmounts : AtmWithdraw(w, a, amount)
  \/ \E a \in Opened, amount \in run.amounts, dates \in run.preferred :
        ApplyForLoan(w, a, amount, dates)
  \/ \E a \in Opened : AdminCloseAccount(w, a)
  \/ \E r \in 1..MaxRequests : CompleteStart(w, r)
  \/ CompleteAccount(w)
  \/ CompleteRecord(w)
  \/ CompleteCheck(w)
  \/ CompleteCommit(w)
  \/ \E l \in 1..MaxLoans, o1 \in run.overrides, o2 \in run.overrides :
        ApproveStart(w, l, o1, o2)
  \/ ApproveAccount(w)
  \/ ApproveCommit(w)
  \/ \E l \in 1..MaxLoans : DenyStart(w, l)
  \/ DenyCommit(w)
  \/ Reply(w)

FeeNext == FeeTick \/ FeeLoop \/ FeeRecord \/ FeeCheck \/ FeeStatus \/ FeeSleep

LoanNext ==
  \/ LoanTick \/ LoanFirst \/ LoanSecond \/ LoanRecord
  \/ LoanCheck \/ LoanStatus \/ LoanSleep

Next ==
  \/ \E w \in Workers : WorkerNext(w)
  \/ FeeNext
  \/ LoanNext
  \/ AdvanceClock

\* The system under interleaving.
Spec == Init /\ [][Next]_vars

\* The system with its operations run one at a time.
SerialSpec == SerialInit /\ [][Next]_vars

\* The same, with the process stopping and starting again at any step.
CrashNext == Next \/ Crash
CrashSpec == SerialInit /\ [][CrashNext]_vars

\* Accounts are opened while the process runs, and the schedulers' database
\* interactions may fail; operations run one at a time.
OpenNext ==
  \/ Next
  \/ \E w \in Workers : CreateAccount(w)
  \/ FeeFail
  \/ LoanFail
OpenSpec == OpenInit /\ [][OpenNext]_vars

\* The schedulers over unbounded time, with failing database interactions;
\* operations run one at a time.  Every thread that can take a step takes one
\* (a handler goes on to its response, a scheduler's loop goes on or raises), a
\* sleep ends, and a scheduler that is due to tick again and again is not kept
\* waiting for ever by the handlers.
LiveNext == Next \/ FeeFail \/ LoanFail \/ Wake
HandlerStep ==
  \E w \in Workers :
    \/ CompleteAccount(w) \/ CompleteRecord(w) \/ CompleteCheck(w) \/ CompleteCommit(w)
    \/ ApproveAccount(w) \/ ApproveCommit(w) \/ DenyCommit(w) \/ Reply(w)
FeeStep == FeeLoop \/ FeeRecord \/ FeeCheck \/ FeeStatus \/ FeeSleep \/ FeeFail
LoanStep ==
  \/ LoanFirst \/ LoanSecond \/ LoanRecord \/ LoanCheck \/ LoanStatus \/ LoanSleep
  \/ LoanFail
LiveSpec ==
  /\ LiveInit
  /\ [][LiveNext]_vars
  /\ WF_vars(HandlerStep)
  /\ WF_vars(FeeStep)
  /\ WF_vars(LoanStep)
  /\ WF_vars(AdvanceClock \/ Wake)
  /\ SF_vars(FeeTick)
  /\ SF_vars(LoanTick)

\* The first requests reach the one-time initialisation together; afterwards
\* operations run one at a time.
BootNext ==
  \/ Next
  \/ \E w \in Workers : InitCheck(w) \/ InitThreads(w)
BootSpec == BootInit /\ [][BootNext]_vars

\* ------------------------------------------------------------ properties

\* No operation is in progress.
Quiescent == InFlight = 0

RECURSIVE SumAmounts(_)
SumAmounts(txns) ==
  IF txns = <<>> THEN 0 ELSE txns[1].amount + SumAmounts(Tail(txns))

\* How many transactions of account a satisfy: type, and the #id of its description.
CountTxns(a, type, num) ==
  Cardinality({i \in 1..Len(ledger[a]) :
                 ledger[a][i].transaction_type = type /\ ledger[a][i].num = num})

\* C1. Ledger invariant: in every reachable state each account's balance is the
\* sum of the amounts of its transactions, and every transaction's balance_after
\* is the sum of the amounts up to and including itself.
C1_LedgerInvariant ==
  \A a \in Accounts :
    /\ accounts[a].balance = SumAmounts(ledger[a])
    /\ \A i \in 1..Len(ledger[a]) :
         ledger[a][i].balance_after = SumAmounts(SubSeq(ledger[a], 1, i))

\* C2. Status invariant: after any sequence of operations, an account with a
\* negative balance is on_hold or closed, and one with a balance >= 0 that is not
\* closed is active.
C2_StatusInvariant ==
  Quiescent =>
    \A a \in Opened :
      /\ accounts[a].balance < 0 => accounts[a].status \in {"on_hold", "closed"}
      /\ accounts[a].balance >= 0 /\ accounts[a].status # "closed"
           => accounts[a].status = "active"

\* C3. No lost update: once a deposit completion and a fee charge on a new
\* account (balance 0) have both run, however their steps interleaved, the
\* balance is 0 + deposit - fee, with the two transactions recorded.
C3_NoLostUpdate ==
  \A a \in Accounts :
    (/\ Quiescent
     /\ Len(ledger[a]) = 2
     /\ \E i, j \in 1..2 : /\ ledger[a][i].transaction_type = "deposit"
                           /\ ledger[a][j].transaction_type = "fee")
    => \E i \in 1..2 : /\ ledger[a][i].transaction_type = "deposit"
                       /\ accounts[a].balance = 0 + ledger[a][i].amount - MonthlyFee

\* The fee scheduler commits a charge of account a in this step.
FeeCharges(a) ==
  /\ fee.pc = "record"
  /\ fee'.pc = "check"
  /\ Head(fee.todo) = a

\* The fee scheduler's loop examines account a in this step.
FeeExamines(a) ==
  /\ fee.pc = "loop"
  /\ fee.todo # <<>>
  /\ Head(fee.todo) = a
  /\ fee' # fee

\* C4. Fee idempotence: a tick charges an account only when its last_fee_date
\* lies a billing period or more before the tick's date, and the charge moves
\* last_fee_date to the tick's date; so a tick that examines an account already
\* charged on the tick's date (a second tick in immediate succession) does not
\* charge it and leaves balance, last_fee_date, status and transactions unchanged.
C4_FeeIdempotent ==
  [][\A a \in Accounts :
       /\ FeeCharges(a) =>
            /\ fee.date - accounts[a].last_fee_date >= BillingDays
            /\ accounts'[a].last_fee_date = fee.date
       /\ (FeeExamines(a) /\ accounts[a].last_fee_date = fee.date)
            => /\ fee'.pc # "record"
               /\ UNCHANGED <<accounts, ledger>>]_vars

\* A tick on the date of the account's last charge has examined the account and
\* charged nothing.
C4_Witness ==
  /\ fee.pc = "loop"
  /\ fee.todo = <<>>
  /\ fee.charged = {}
  /\ fee.date > 0
  /\ \E a \in Accounts :
       /\ fee.snap[a].loaded
       /\ fee.snap[a].last_fee_date = fee.date
       /\ accounts[a].last_fee_date = fee.date
       /\ CountTxns(a, "fee", 0) = 1

\* C5. Loan payment ordering: in every reachable state of every loan,
\* second_payment_done is true only if first_payment_done is true.
C5_SecondImpliesFirst ==
  \A l \in 1..Len(loans) :
    loans[l].second_payment_done => loans[l].first_payment_done

\* A loan's second payment has been made.
C5_Witness == \E l \in 1..Len(loans) : loans[l].second_payment_done

\* C6. A loan's status changes only pending -> approved, pending -> denied and
\* approved -> completed, the last only with both payments made; denied and
\* completed loans keep their status.
C6_LoanTransitions ==
  [][\A l \in 1..Len(loans) :
       loans'[l].status # loans[l].status =>
         \/ loans[l].status = "pending" /\ loans'[l].status \in {"approved", "denied"}
         \/ /\ loans[l].status = "approved"
            /\ loans'[l].status = "completed"
            /\ loans'[l].first_payment_done
            /\ loans'[l].second_payment_done]_vars

\* C7. Completing a teller request that is already completed fails with an
\* error (HTTP 400) and changes no balance, status, request or transaction.
C7_CompletedRefused ==
  [][\A w \in Workers, r \in 1..Len(requests) :
       (CompleteStart(w, r) /\ requests[r].status = "completed")
         => /\ wk'[w].pc = "reply"
            /\ wk'[w].resp = 400
            /\ UNCHANGED db]_vars

\* A completion of a completed request has been refused.
C7_Witness ==
  \E w \in Workers :
    /\ wk[w].pc = "reply"
    /\ wk[w].op = "complete"
    /\ wk[w].resp = 400
    /\ requests[wk[w].target].status = "completed"

\* C8. Each teller request's amount is applied to its account at most once.
C8_AppliedOnce ==
  \A r \in 1..Len(requests) : applied[r] <= 1

\* C9. No loan is disbursed twice, and a denied loan is not disbursed.
C9_DisbursedOnce ==
  \A l \in 1..Len(loans) :
    /\ CountTxns(loans[l].account_id, "loan_disbursement", l) <= 1
    /\ loans[l].status = "denied"
         => CountTxns(loans[l].account_id, "loan_disbursement", l) = 0

\* C10. Closed is terminal: a closed account stays closed in every later state.
C10_ClosedTerminal ==
  [][\A a \in Accounts :
       accounts[a].status = "closed" => accounts'[a].status = "closed"]_vars

\* C11. A deposit request, a withdrawal request and a loan application that
\* target a closed account are rejected and create no request, loan or
\* transaction.
C11_ClosedRejects ==
  [][\A w \in Workers, a \in Accounts :
       (/\ accounts[a].status = "closed"
        /\ \/ \E amount \in DepositAmounts : AtmDeposit(w, a, amount)
           \/ \E amount \in WithdrawAmounts : AtmWithdraw(w, a, amount)
           \/ \E amount \in run.amounts, dates \in run.preferred :
                 ApplyForLoan(w, a, amount, dates))
         => /\ wk'[w].resp >= 400
            /\ UNCHANGED <<requests, loans, ledger>>]_vars

\* C12. A withdrawal request for more than the balance, for a non-positive
\* amount, or against an account that is not active is rejected (HTTP 400) and
\* creates no transaction and no request and leaves the balance unchanged.
C12_WithdrawRefused ==
  [][\A w \in Workers, a \in Accounts, amount \in WithdrawAmounts :
       (/\ AtmWithdraw(w, a, amount)
        /\ \/ amount > accounts[a].balance
           \/ amount <= 0
           \/ accounts[a].status # "active")
         => /\ wk'[w].pc = "reply"
            /\ wk'[w].resp = 400
            /\ UNCHANGED db]_vars

\* A withdrawal request against an active account has been refused for its
\* amount, and nothing was recorded.
C12_Witness ==
  \E w \in Workers :
    /\ wk[w].pc = "reply"
    /\ wk[w].op = "atm_withdraw"
    /\ wk[w].resp = 400
    /\ requests = <<>>
    /\ \E a \in Accounts : accounts[a].status = "active"

\* The fee scheduler's tick ends in this step.
FeeTickEnds ==
  /\ fee.pc = "loop"
  /\ fee.todo = <<>>
  /\ fee'.pc = "sleep"

\* C13. A fee tick charges every account that is not closed and whose
\* last_fee_date lies 30 days or more before the tick's date: when the tick
\* ends, no active or on_hold account is left with such a last_fee_date.
C13_AllDueCharged ==
  [][FeeTickEnds =>
       \A a \in Accounts :
         accounts[a].status \in {"active", "on_hold"}
           => fee.date - accounts[a].last_fee_date < BillingDays]_vars

\* C14. No fee is charged before a full billing period has passed: a tick
\* charges an account only 30 days or more after the account was opened and,
\* when the account has been charged before, 30 days or more after that charge.
C14_NoEarlyFee ==
  [][\A a \in Accounts :
       FeeCharges(a) =>
         /\ fee.date - accounts[a].created_at >= BillingDays
         /\ CountTxns(a, "fee", 0) > 0
              => fee.date - accounts[a].last_fee_date >= BillingDays]_vars

\* C15. Failure isolation: when the processing of one account (one loan) fails
\* in a tick that has more accounts (loans) to process, the tick is not over:
\* the loop goes on with the remaining ones.
C15_FailureIsolated ==
  [][/\ (FeeFail /\ Len(fee.todo) > 1) =>
          /\ fee'.pc = "loop"
          /\ fee'.todo = Tail(fee.todo)
     /\ (LoanFail /\ Len(ln.todo) > 1) =>
          /\ ln'.pc = "first"
          /\ ln'.todo = Tail(ln.todo)]_vars

\* The model's bound on the ledger leaves room for another transaction.
LedgerRoom == \A a \in Accounts : CanRecord(a)

\* C16. Neither scheduler loop ends on an error: each scheduler starts a tick
\* again and again, also after a tick in which an exception was raised.
C16_TicksForever ==
  []LedgerRoom => ([]<><<FeeTick>>_vars /\ []<><<LoanTick>>_vars)

\* Each scheduler runs a tick after a tick of its own that raised.
C16_Witness ==
  /\ fee.pc = "loop"
  /\ fee.failed
  /\ ln.failed

\* Loan l is approved, its first (second) payment is due by the calendar and
\* covered by the account's balance, and the payment is not made.
FirstOwed(l) ==
  /\ l <= Len(loans)
  /\ loans[l].status = "approved"
  /\ FirstDue(now, loans[l])
  /\ Covers(accounts[loans[l].account_id].balance, FirstPaymentAmount(loans[l].amount))

SecondOwed(l) ==
  /\ l <= Len(loans)
  /\ loans[l].status = "approved"
  /\ loans[l].approved_date2 # NoDate
  /\ now >= loans[l].approved_date2
  /\ ~loans[l].second_payment_done
  /\ Covers(accounts[loans[l].account_id].balance, SecondPaymentAmount(loans[l].amount))

\* C19. A deferred payment is not dropped: when the scheduler's database
\* interactions stop failing and the ledger bound leaves room, no payment of an
\* approved loan stays due and covered for ever without being made.
C19_DeferredNotDropped ==
  ([]LedgerRoom /\ <>[][~LoanFail]_vars) =>
    \A l \in 1..MaxLoans : ~<>[]FirstOwed(l) /\ ~<>[]SecondOwed(l)

\* A second payment that was deferred for lack of funds has been made in a
\* later tick, after a deposit: disbursement, first payment, deposit, final
\* payment.
C19_Witness ==
  \E l \in 1..Len(loans) :
    LET t == ledger[loans[l].account_id]
    IN /\ loans[l].second_payment_done
       /\ loans[l].approved_date2 <= loans[l].approved_date1
       /\ Len(t) = 4
       /\ t[2].transaction_type = "loan_payment"
       /\ t[3].transaction_type = "deposit"
       /\ t[4].transaction_type = "loan_payment"

\* C17. At most one fee-scheduler loop and at most one loan-scheduler loop are
\* ever started, also when several first requests reach the one-time
\* initialisation at the same time.
C17_OneLoopEach ==
  /\ boot.fee_threads <= 1
  /\ boot.loan_threads <= 1

\* The loan scheduler finds a due payment that the balance it holds for the
\* account does not cover: the first payment, the second payment.
FirstShort ==
  /\ ln.pc = "first"
  /\ ln.todo # <<>>
  /\ LET l == Head(ln.todo)
         a == loans[l].account_id
         acc == IF ln.asnap[a].loaded THEN ln.asnap[a] ELSE LoadAccount(a)
         row == IF ln.lsnap[l].loaded THEN ln.lsnap[l] ELSE LoadLoan(l)
     IN FirstDue(ln.date, row) /\ acc.balance < FirstPaymentAmount(loans[l].amount)

SecondShort ==
  /\ ln.pc = "second"
  /\ LET l == Head(ln.todo)
         a == loans[l].account_id
         acc == IF ln.asnap[a].loaded THEN ln.asnap[a] ELSE LoadAccount(a)
         row == IF ln.lsnap[l].loaded THEN ln.lsnap[l] ELSE LoadLoan(l)
     IN SecondDue(ln.date, row) /\ acc.balance < SecondPaymentAmount(loans[l].amount)

\* C18. A deferred payment leaves the state untouched: when a due payment is
\* attempted and the balance is below its amount, the attempt changes no
\* balance, status, payment flag, loan status or transaction, prepares no
\* commit, and the loop goes on; the loan stays approved.
C18_DeferredUntouched ==
  [][/\ (FirstShort /\ LoanFirst) =>
          /\ ln'.pc = "second"
          /\ ln'.bal = ln.bal
          /\ UNCHANGED db
     /\ (SecondShort /\ LoanSecond) =>
          /\ ln'.pc = "first"
          /\ ln'.todo = Tail(ln.todo)
          /\ ln'.bal = ln.bal
          /\ UNCHANGED db
     /\ ((FirstShort /\ LoanFirst) \/ (SecondShort /\ LoanSecond)) =>
          \A l \in 1..Len(loans) :
            loans[l].status = "approved" => loans'[l].status = "approved"]_vars

\* A due first payment has been deferred: the loop has gone on to the second
\* payment with the loan approved and unpaid and the balance below the amount.
C18_Witness ==
  /\ ln.pc = "second"
  /\ ln.phase = 0
  /\ LET l == Head(ln.todo)
         a == loans[l].account_id
     IN /\ loans[l].status = "approved"
        /\ FirstDue(ln.date, loans[l])
        /\ ln.asnap[a].loaded
        /\ ln.asnap[a].balance < FirstPaymentAmount(loans[l].amount)
        /\ accounts[a].balance = ln.asnap[a].balance

\* C20. No same-tick chaining: in the tick that makes a loan's first payment,
\* the loan's second payment is not made.
C20_NoChaining ==
  [][(ln.pc = "second" /\ ln.phase = 1) => ln'.pc # "record"]_vars

FeeChargeWhole(a) ==
  BillingDays * CountTxns(a, "fee", 0) <= accounts[a].last_fee_date - StartDate

\* C22. The fee charge is one atomic unit: in every committed state, with the
\* process stopping at any step, a step adds a fee transaction to an account
\* exactly when it moves the account's last_fee_date, and that step deducts the
\* fee and records the new balance; the charge is made only when the committed
\* last_fee_date lies a period or more before the tick's date, so every fee row
\* stands for a period of its own and a tick run again on the same date after
\* a stop does not charge the period twice.
C22_FeeChargeAtomic ==
  /\ [](\A a \in Accounts : FeeChargeWhole(a))
  /\ [][\A a \in Accounts :
         /\ (CountTxns(a, "fee", 0)' # CountTxns(a, "fee", 0))
              <=> (accounts'[a].last_fee_date # accounts[a].last_fee_date)
         /\ (CountTxns(a, "fee", 0)' # CountTxns(a, "fee", 0)) =>
              /\ CountTxns(a, "fee", 0)' = CountTxns(a, "fee", 0) + 1
              /\ accounts'[a].balance = accounts[a].balance - MonthlyFee
              /\ accounts'[a].last_fee_date = fee.date
              /\ accounts[a].last_fee_date + BillingDays <= fee.date
              /\ ledger'[a][Len(ledger'[a])].transaction_type = "fee"
              /\ ledger'[a][Len(ledger'[a])].balance_after = accounts'[a].balance]_vars

\* The process stopped after a charge was committed and before the account's
\* status was decided; the tick run again on the same date has examined the
\* account and charged nothing.
C22_Witness ==
  /\ fee.pc = "loop"
  /\ fee.todo = <<>>
  /\ fee.charged = {}
  /\ \E a \in Accounts :
       /\ fee.snap[a].loaded
       /\ accounts[a].status = "active"
       /\ accounts[a].balance = 0 - MonthlyFee
       /\ accounts[a].last_fee_date = fee.date
       /\ CountTxns(a, "fee", 0) = 1

\* C23. No catch-up: a charge made when two or more billing periods have
\* passed since the account's last_fee_date adds exactly one fee transaction,
\* deducts one fee, is the tick's only charge of the account and sets
\* last_fee_date to the tick's date; a tick that examines an account less than
\* a billing period after its last_fee_date (the same date included) charges
\* nothing and changes nothing.
C23_NoCatchUp ==
  [][\A a \in Accounts :
       /\ (FeeCharges(a) /\ fee.date - accounts[a].last_fee_date >= 2 * BillingDays)
            => /\ a \notin fee.charged
               /\ CountTxns(a, "fee", 0)' = CountTxns(a, "fee", 0) + 1
               /\ Len(ledger'[a]) = Len(ledger[a]) + 1
               /\ accounts'[a].balance = accounts[a].balance - MonthlyFee
               /\ accounts'[a].last_fee_date = fee.date
       /\ (/\ FeeExamines(a)
           /\ fee.date - accounts[a].last_fee_date < BillingDays
           /\ accounts[a].last_fee_date - StartDate >= 2 * BillingDays)
            => /\ fee'.pc # "record"
               /\ UNCHANGED <<accounts, ledger>>]_vars

\* An account first charged two periods or more after its opening has one fee
\* transaction, and a tick on a later date within the following 29 days has
\* examined it and charged nothing.
C23_Witness ==
  /\ fee.pc = "loop"
  /\ fee.todo = <<>>
  /\ fee.charged = {}
  /\ \E a \in Accounts :
       /\ fee.snap[a].loaded
       /\ accounts[a].last_fee_date - StartDate >= 2 * BillingDays
       /\ fee.date > accounts[a].last_fee_date
       /\ fee.date - accounts[a].last_fee_date < BillingDays
       /\ CountTxns(a, "fee", 0) = 1

\* The loan scheduler commits a payment in this step.
LoanPays ==
  /\ ln.pc = "record"
  /\ ln'.pc = "check"

\* C24. Loan payment amounts and completion: the commit of a first payment
\* lowers the account's balance by exactly 50% of the loan's amount and the
\* commit of a second payment by exactly 109.99% of it, each with one new
\* loan_payment transaction of the negated amount; and in every state a loan's
\* status is completed exactly when its second_payment_done is true.
C24_PaymentsExact ==
  /\ [](\A l \in 1..Len(loans) :
          (loans[l].status = "completed") <=> loans[l].second_payment_done)
  /\ [][LoanPays =>
         LET l == Head(ln.todo)
             a == loans[l].account_id
             pay == IF ln.phase = 1 THEN (loans[l].amount * 50) \div 100
                    ELSE (loans[l].amount * 10999) \div 10000
         IN /\ accounts'[a].balance = accounts[a].balance - pay
            /\ Len(ledger'[a]) = Len(ledger[a]) + 1
            /\ ledger'[a][Len(ledger'[a])].transaction_type = "loan_payment"
            /\ ledger'[a][Len(ledger'[a])].amount = 0 - pay
            /\ IF ln.phase = 1 THEN loans'[l].first_payment_done
               ELSE loans'[l].second_payment_done]_vars

\* C25. A withdrawal is applied against sufficient funds only: the commit of a
\* pending withdrawal request's completion never leaves the account's balance
\* negative, whatever has lowered the balance since the request was made.
C25_WithdrawalCovered ==
  [][\A w \in Workers :
       (CompleteRecord(w) /\ requests[wk[w].target].request_type = "withdrawal")
         => accounts'[requests[wk[w].target].account_id].balance >= 0]_vars

\* C26. A loan application with a non-positive amount is refused and creates
\* no loan; so every loan_disbursement transaction has a positive amount and
\* every loan_payment transaction a negative one.
C26_NonPositiveRefused ==
  /\ [][\A w \in Workers, a \in Accounts, amount \in run.amounts, dates \in run.preferred :
         (ApplyForLoan(w, a, amount, dates) /\ amount <= 0)
           => /\ wk'[w].resp >= 400
              /\ UNCHANGED loans]_vars
  /\ [](\A a \in Accounts : \A i \in 1..Len(ledger[a]) :
          /\ ledger[a][i].transaction_type = "loan_disbursement" => ledger[a][i].amount > 0
          /\ ledger[a][i].transaction_type = "loan_payment" => ledger[a][i].amount < 0)

\* C27. Serial ledger consistency: with the operations run one at a time,
\* after each operation every account's balance is the sum of its
\* transactions' amounts and the newest transaction's balance_after is the
\* balance; and every step that changes a balance or a ledger appends exactly
\* one transaction to that account, whose amount is the change of the balance
\* and whose balance_after is the new balance.
C27_SerialLedger ==
  /\ [](Quiescent =>
         \A a \in Accounts :
           /\ accounts[a].balance = SumAmounts(ledger[a])
           /\ ledger[a] # <<>> =>
                ledger[a][Len(ledger[a])].balance_after = accounts[a].balance)
  /\ [][\A a \in Accounts :
         (accounts'[a].balance # accounts[a].balance \/ ledger'[a] # ledger[a])
           => /\ Len(ledger'[a]) = Len(ledger[a]) + 1
              /\ SubSeq(ledger'[a], 1, Len(ledger[a])) = ledger[a]
              /\ ledger'[a][Len(ledger'[a])].amount
                   = accounts'[a].balance - accounts[a].balance
              /\ ledger'[a][Len(ledger'[a])].balance_after = accounts'[a].balance]_vars

\* No operation is in progress, and an account's ledger holds a loan's
\* disbursement, a completed withdrawal and a fee.
C27_Witness ==
  /\ Quiescent
  /\ \E a \in Accounts :
       /\ CountTxns(a, "loan_disbursement", 1) = 1
       /\ CountTxns(a, "withdrawal", 0) = 1
       /\ CountTxns(a, "fee", 0) = 1
       /\ accounts[a].balance = 10000 - 6000 - MonthlyFee

\* C28. The loan scheduler never overdraws: the commit of a first or second
\* payment is made on a balance that covers the payment, so it leaves the
\* balance at zero or more, and no step of a loan tick puts an account
\* on_hold, also when handlers and the fee scheduler interleave with the tick.
C28_NoOverdraw ==
  [][/\ LoanPays =>
          LET l == Head(ln.todo)
              a == loans[l].account_id
              pay == IF ln.phase = 1 THEN FirstPaymentAmount(loans[l].amount)
                     ELSE SecondPaymentAmount(loans[l].amount)
          IN /\ accounts[a].balance >= pay
             /\ accounts'[a].balance >= 0
     /\ (ln.pc = "status" /\ ln'.pc # "status")
          => \A a \in Accounts :
               accounts'[a].status = "on_hold" => accounts[a].status = "on_hold"]_vars

====
